---- MODULE Spec2Model ----
(***************************************************************************)
(* Model of the data stream client of datastreamer/streamclient.go:        *)
(* the caller's thread (Start and the six command wrappers), the packet    *)
(* dispatcher goroutine (readEntries, with connectServer), the streaming   *)
(* consumer goroutine (getStreaming), the four channels between them, and  *)
(* the socket with the server behind it.                                   *)
(***************************************************************************)
EXTENDS Integers, Sequences, FiniteSets, TLC

\* ------------------------------------------------------------------ bounds
MaxEntry == 1     \* the server's log holds the entries 0..MaxEntry
MaxCmds == 2      \* commands the caller issues on the started client
MaxFaults == 1    \* network faults (drops, corrupted packets) in a run
ChanCap == 2      \* capacity of each channel (32/32/128/32 in the source)
MaxWire == 2      \* packets in flight from the server to the client
MaxTasks == 2     \* calls of Start that launch goroutines

\* --------------------------------------------------------------- constants
CmdErrOK == 0     \* result code of a command that succeeded
CmdErrFail == 1   \* any other result code

KnownCommands ==
    {"CmdStart", "CmdStartBookmark", "CmdStop", "CmdHeader", "CmdEntry", "CmdBookmark"}

CommandValues == KnownCommands \cup {"CmdUnknown"}

\* Command.IsACommand: one of the six known commands.
IsACommand(cmd) == cmd \in KnownCommands

\* FileEntry{}: the zero value execCommand returns when it has no entry.
EmptyEntry == [Number |-> 0, Type |-> "EtZero"]

\* HeaderEntry{}: only TotalEntries is read by the client.
EmptyHeader == 0

Entries == 0..MaxEntry

VARIABLES
    started, connected, streaming, fromStream, totalEntries, nextEntry,
    conn,        \* c.conn: "nil", "open", "broken" (peer gone), "closed"
    results, headers, entries, entryRsp,   \* the four channels
    cPc, cCmd, cArg, ret,                  \* the caller's thread
    dPc, dDeferred, dHeld,                 \* readEntries
    sPc, sCur,                             \* getStreaming
    out, wire,                             \* the socket: commands written, packets to read
    srvStreaming, srvNext, srvSid,         \* the server's side of the connection
    srvLast,                               \* last start/stop the server accepted
    seen,                                  \* entry last handed to the callback
    ls,                                    \* the logical stream: "none", "fresh", "running"
    cmds, faults,                          \* budget counters of the run
    tasks                                  \* readEntries/getStreaming pairs launched by Start

clientVars == <<started, connected, streaming, fromStream, totalEntries, nextEntry>>
chanVars == <<results, headers, entries, entryRsp>>
callerVars == <<cPc, cCmd, cArg, ret>>
dispVars == <<dPc, dDeferred, dHeld>>
consVars == <<sPc, sCur>>
sockVars == <<conn, out, wire>>
srvVars == <<srvStreaming, srvNext, srvSid, srvLast>>
vars == <<clientVars, chanVars, callerVars, dispVars, consVars, sockVars, srvVars,
          seen, ls, cmds, faults, tasks>>

NoPacket == [type |-> "none", n |-> 0, k |-> "EtZero", sid |-> 0]
NoSeen == [Number |-> -1, sid |-> 0]
NoEntry == [Number |-> 0, Type |-> "EtZero", sid |-> 0]
NoRet == [cmd |-> "none", err |-> "none", header |-> EmptyHeader, entry |-> EmptyEntry]

\* NewClient: the state after construction.
Init ==
    /\ started = FALSE /\ connected = FALSE /\ streaming = FALSE
    /\ fromStream = 0 /\ totalEntries = 0 /\ nextEntry = 0
    /\ conn = "nil"
    /\ results = <<>> /\ headers = <<>> /\ entries = <<>> /\ entryRsp = <<>>
    /\ cPc = "new" /\ cCmd = "none" /\ cArg = 0 /\ ret = NoRet
    /\ dPc = "off" /\ dDeferred = FALSE /\ dHeld = NoPacket
    /\ sPc = "off" /\ sCur = NoEntry
    /\ out = <<>> /\ wire = <<>>
    /\ srvStreaming = FALSE /\ srvNext = 0 /\ srvSid = 0 /\ srvLast = "none"
    /\ seen = NoSeen /\ ls = "none"
    /\ cmds = 0 /\ faults = 0
    /\ tasks = 0

\* A panic on any goroutine ends the process: nothing runs after it.
Running == cPc # "panic"

\* ------------------------------------------------------------ execCommand
\* Mutant: the command is validated before the started flag is looked at.
ExecCheckValidFirst(cmd, isStarted) ==
    IF ~IsACommand(cmd) THEN "ErrInvalidCommand"
    ELSE IF ~isStarted THEN "ErrExecCommandNotAllowed"
    ELSE "ok"

\* Mutant: the command is not validated.
ExecCheckNoValid(cmd, isStarted) ==
    IF ~isStarted THEN "ErrExecCommandNotAllowed" ELSE "ok"

\* The two checks at the head of execCommand, in the order of the code.
ExecCheck(cmd, isStarted) ==
    IF ~isStarted THEN "ErrExecCommandNotAllowed"
    ELSE IF ~IsACommand(cmd) THEN "ErrInvalidCommand"
    ELSE "ok"

\* What the writes of one command can do on the socket: "sent" (the server
\* will read it), "lost" (written locally, the peer is gone), "err" (the write
\* fails), "panic" (conn is nil: writeFullUint64 sets ErrNilConnection and
\* then calls conn.RemoteAddr() on the nil interface to log it).
WriteOutcomes(c) ==
    CASE c = "open" -> {"sent"}
      [] c = "broken" -> {"lost", "err"}
      [] c = "closed" -> {"err"}
      [] OTHER -> {"panic"}

\* Mutant: the result code is not looked at.
ResultFailedNever(r) == FALSE

\* if r.errorNum != uint32(CmdErrOK)
ResultFailed(r) == r # CmdErrOK

\* The switch after the result: the streaming flag ...
StreamingAfter(cmd, cur) ==
    CASE cmd \in {"CmdStart", "CmdStartBookmark"} -> TRUE
      [] cmd = "CmdStop" -> FALSE
      [] OTHER -> cur

\* Mutant: CmdStart does not record its entry number.
FromStreamAfterKeep(cmd, fromEntry, cur) == cur

\* ... and fromStream, which only CmdStart records.
FromStreamAfter(cmd, fromEntry, cur) ==
    IF cmd = "CmdStart" THEN fromEntry ELSE cur

\* Mutant: the not-found error comes with the entry received.
EntryReturnRaw(cmd, e) ==
    [err |-> IF e.Type # "EtNotFound" THEN "nil"
             ELSE IF cmd = "CmdEntry" THEN "ErrEntryNotFound" ELSE "ErrBookmarkNotFound",
     entry |-> e]

\* CmdEntry / CmdBookmark: the entry popped from entryRsp, or the not-found error
\* with the entry execCommand declared at its head.
EntryReturn(cmd, e) ==
    IF e.Type = "EtNotFound"
    THEN [err |-> IF cmd = "CmdEntry" THEN "ErrEntryNotFound" ELSE "ErrBookmarkNotFound",
          entry |-> EmptyEntry]
    ELSE [err |-> "nil", entry |-> e]

Message(cmd, arg, deferred) == [cmd |-> cmd, arg |-> arg, deferred |-> deferred]

\* The parameter execCommand sends with the command (entry number, or none).
ArgsOf(cmd) == IF cmd \in {"CmdStart", "CmdEntry"} THEN Entries ELSE {0}

Return(cmd, err, header, entry) ==
    ret' = [cmd |-> cmd, err |-> err, header |-> header, entry |-> entry]

\* execCommand on a client that is not started, or with an unknown command:
\* it returns at one of its two checks. deferredResult is not read before them.
ExecRejected ==
    /\ Running
    /\ cPc \in {"new", "idle"}
    /\ started => cmds < MaxCmds
    /\ cmds' = IF started THEN cmds + 1 ELSE cmds
    /\ \E cmd \in CommandValues, deferredResult \in BOOLEAN :
         /\ deferredResult => ~started
         /\ ExecCheck(cmd, started) # "ok"
         /\ Return(cmd, ExecCheck(cmd, started), EmptyHeader, EmptyEntry)
    /\ UNCHANGED <<clientVars, chanVars, cPc, cCmd, cArg, dispVars, consVars, sockVars,
                   srvVars, seen, ls, faults, tasks>>

\* A foreground command up to its last write on the socket.
ExecSend ==
    /\ Running
    /\ cPc \in {"new", "idle"}
    /\ cmds < MaxCmds
    /\ \E cmd \in CommandValues :
       \E arg \in ArgsOf(cmd) :
       \E w \in WriteOutcomes(conn) :
         /\ ExecCheck(cmd, started) = "ok"
         /\ cmds' = cmds + 1
         /\ ls' = IF cmd \in {"CmdStart", "CmdStartBookmark", "CmdStop"} THEN "none" ELSE ls
         /\ out' = IF w = "sent" THEN Append(out, Message(cmd, arg, FALSE)) ELSE out
         /\ IF w \in {"sent", "lost"}
            THEN /\ cPc' = "waitResult" /\ cCmd' = cmd /\ cArg' = arg
                 /\ UNCHANGED ret
            ELSE IF w = "err"
            THEN /\ Return(cmd, "ErrWrite", EmptyHeader, EmptyEntry)
                 /\ UNCHANGED <<cPc, cCmd, cArg>>
            ELSE /\ cPc' = "panic"
                 /\ UNCHANGED <<cCmd, cArg, ret>>
    /\ UNCHANGED <<clientVars, chanVars, dispVars, consVars, conn, wire, srvVars, seen,
                   faults, tasks>>

\* History: a foreground Start or StartBookmark that returned nil opens a logical
\* stream ("fresh" until its first entry is delivered); the stream ends when the
\* caller issues the next Start, StartBookmark or Stop.
LogicalStreamAfter(cmd, cur) ==
    CASE cmd \in {"CmdStart", "CmdStartBookmark"} -> "fresh"
      [] cmd = "CmdStop" -> "none"
      [] OTHER -> cur

\* getResult of a foreground command, and the switch that follows it up to the
\* return or to the next channel read.
ExecResult ==
    /\ Running
    /\ cPc = "waitResult"
    /\ results # <<>>
    /\ results' = Tail(results)
    /\ IF ResultFailed(Head(results))
       THEN /\ Return(cCmd, "ErrResultCommandError", EmptyHeader, EmptyEntry)
            /\ cPc' = "idle" /\ cCmd' = "none" /\ cArg' = 0
            /\ UNCHANGED <<streaming, fromStream, ls>>
       ELSE /\ streaming' = StreamingAfter(cCmd, streaming)
            /\ fromStream' = FromStreamAfter(cCmd, cArg, fromStream)
            /\ ls' = LogicalStreamAfter(cCmd, ls)
            /\ IF cCmd = "CmdHeader"
               THEN cPc' = "waitHeader" /\ UNCHANGED <<cCmd, cArg, ret>>
               ELSE IF cCmd \in {"CmdEntry", "CmdBookmark"}
               THEN cPc' = "waitEntry" /\ UNCHANGED <<cCmd, cArg, ret>>
               ELSE /\ Return(cCmd, "nil", EmptyHeader, EmptyEntry)
                    /\ cPc' = "idle" /\ cCmd' = "none" /\ cArg' = 0
    /\ UNCHANGED <<started, connected, totalEntries, nextEntry, headers, entries, entryRsp,
                   dispVars, consVars, sockVars, srvVars, seen, cmds, faults, tasks>>

\* CmdHeader: getHeader and the update of totalEntries.
ExecHeader ==
    /\ Running
    /\ cPc = "waitHeader"
    /\ headers # <<>>
    /\ headers' = Tail(headers)
    /\ totalEntries' = Head(headers)
    /\ Return(cCmd, "nil", Head(headers), EmptyEntry)
    /\ cPc' = "idle" /\ cCmd' = "none" /\ cArg' = 0
    /\ UNCHANGED <<started, connected, streaming, fromStream, nextEntry, results, entries,
                   entryRsp, dispVars, consVars, sockVars, srvVars, seen, ls, cmds, faults, tasks>>

\* CmdEntry / CmdBookmark: getEntry and the not-found check.
ExecEntry ==
    /\ Running
    /\ cPc = "waitEntry"
    /\ entryRsp # <<>>
    /\ entryRsp' = Tail(entryRsp)
    /\ Return(cCmd, EntryReturn(cCmd, Head(entryRsp)).err, EmptyHeader,
              EntryReturn(cCmd, Head(entryRsp)).entry)
    /\ cPc' = "idle" /\ cCmd' = "none" /\ cArg' = 0
    /\ UNCHANGED <<clientVars, results, headers, entries, dispVars, consVars, sockVars,
                   srvVars, seen, ls, cmds, faults, tasks>>

\* ------------------------------------------------- Start and connectServer
\* net.Dial succeeds: a new socket, with a server that knows nothing of the
\* previous connection of this client.
DialOk ==
    /\ conn' = "open"
    /\ connected' = TRUE
    /\ out' = <<>> /\ wire' = <<>>
    /\ srvStreaming' = FALSE /\ srvNext' = 0
    /\ UNCHANGED <<srvSid, srvLast>>

\* net.Dial fails: it returns a nil connection, which the code assigns to c.conn.
DialFail ==
    /\ conn' = "nil"
    /\ UNCHANGED <<connected, out, wire, srvVars>>

\* Mutant: the socket is closed and the connected flag is left as it is.
CloseConnectionKeepFlag ==
    /\ conn' = IF conn = "nil" THEN "nil" ELSE "closed"
    /\ connected' = connected
    /\ out' = <<>> /\ wire' = <<>>

\* closeConnection: close the socket if there is one, clear the connected flag.
CloseConnection ==
    /\ conn' = IF conn = "nil" THEN "nil" ELSE "closed"
    /\ connected' = FALSE
    /\ out' = <<>> /\ wire' = <<>>

\* Start: connectServer on the caller's thread (streaming is false before any
\* command can succeed, so nothing is restored) ...
StartDial ==
    /\ Running
    /\ cPc \in {"new", "starting"}
    /\ ~connected
    /\ \/ DialOk /\ cPc' = "spawn"
       \/ DialFail /\ cPc' = "starting"
    /\ UNCHANGED <<started, streaming, fromStream, totalEntries, nextEntry, chanVars,
                   cCmd, cArg, ret, dispVars, consVars, seen, ls, cmds, faults, tasks>>

\* ... then the two goroutines and the started flag.
StartSpawn ==
    /\ Running
    /\ cPc = "spawn"
    /\ dPc' = "connect" /\ sPc' = "pop"
    /\ started' = TRUE
    /\ cPc' = "idle"
    /\ tasks' = tasks + 1
    /\ UNCHANGED <<connected, streaming, fromStream, totalEntries, nextEntry, chanVars,
                   cCmd, cArg, ret, dDeferred, dHeld, sCur, sockVars, srvVars, seen, ls,
                   cmds, faults>>

\* connectServer in readEntries with the connection up: the loop is skipped.
DispConnected ==
    /\ Running
    /\ dPc = "connect"
    /\ connected
    /\ dPc' = "read" /\ dDeferred' = FALSE
    /\ UNCHANGED <<clientVars, chanVars, callerVars, dHeld, consVars, sockVars, srvVars,
                   seen, ls, cmds, faults, tasks>>

\* connectServer in readEntries with the connection down: dial, sleep on failure.
DispDial ==
    /\ Running
    /\ dPc = "connect"
    /\ ~connected
    /\ \/ DialOk /\ dPc' = "restore"
       \/ DialFail /\ dPc' = "connect"
    /\ UNCHANGED <<started, streaming, fromStream, totalEntries, nextEntry, chanVars,
                   callerVars, dDeferred, dHeld, consVars, seen, ls, cmds, faults, tasks>>

\* The cursor the resume command carries.
ResumeFrom == nextEntry

\* connectServer after the dial: if c.streaming, restore it; else return false.
DispRestore ==
    /\ Running
    /\ dPc = "restore"
    /\ IF streaming
       THEN dPc' = "resume" /\ UNCHANGED dDeferred
       ELSE dPc' = "read" /\ dDeferred' = FALSE
    /\ UNCHANGED <<clientVars, chanVars, callerVars, dHeld, consVars, sockVars, srvVars,
                   seen, ls, cmds, faults, tasks>>

\* execCommand(CmdStart, true, c.nextEntry, nil): the writes, no getResult, the
\* flag and fromStream; then connectServer returns true. A failed write closes
\* the connection and the loop dials again after the sleep.
DispResume ==
    /\ Running
    /\ dPc = "resume"
    /\ \E w \in WriteOutcomes(conn) :
         IF w \in {"sent", "lost"}
         THEN /\ out' = IF w = "sent"
                          THEN Append(out, Message("CmdStart", ResumeFrom, TRUE))
                          ELSE out
              /\ streaming' = StreamingAfter("CmdStart", streaming)
              /\ fromStream' = FromStreamAfter("CmdStart", ResumeFrom, fromStream)
              /\ dPc' = "read" /\ dDeferred' = TRUE
              /\ UNCHANGED <<conn, connected, wire>>
         ELSE /\ CloseConnection
              /\ dPc' = "connect"
              /\ UNCHANGED <<streaming, fromStream, dDeferred>>
    /\ UNCHANGED <<started, totalEntries, nextEntry, chanVars, callerVars, dHeld, consVars,
                   srvVars, seen, ls, cmds, faults, tasks>>

\* ------------------------------------------------------------- readEntries
\* Read the type byte and the record of one packet. A failed read or a record
\* that does not decode closes the connection; an unknown type is skipped.
DispRead ==
    /\ Running
    /\ dPc = "read"
    /\ IF wire # <<>>
       THEN IF Head(wire).type = "bad"
            THEN /\ CloseConnection
                 /\ dPc' = "connect"
                 /\ UNCHANGED dHeld
            ELSE /\ wire' = Tail(wire)
                 /\ IF Head(wire).type = "PtUnknown"
                    THEN dPc' = "connect" /\ UNCHANGED dHeld
                    ELSE dPc' = "push" /\ dHeld' = Head(wire)
                 /\ UNCHANGED <<conn, connected, out>>
       ELSE /\ conn # "open"
            /\ CloseConnection
            /\ dPc' = "connect"
            /\ UNCHANGED dHeld
    /\ UNCHANGED <<started, streaming, fromStream, totalEntries, nextEntry, chanVars,
                   callerVars, dDeferred, consVars, srvVars, seen, ls, cmds, faults, tasks>>

\* The entry the dispatcher sends to c.entries or c.entryRsp for a packet.
EntryOf(p) == [Number |-> p.n, Type |-> p.k, sid |-> p.sid]
RspOf(p) == [Number |-> p.n, Type |-> p.k]

\* Mutant: a send that gives up when the channel already holds an entry.
PushEntryOrDrop(q, e) == IF q = <<>> THEN Append(q, e) ELSE q

\* Mutant: the entry is put at the head of the channel.
PushEntryFront(q, e) == <<e>> \o q

\* c.entries <- e
PushEntry(q, e) == Append(q, e)

\* The channel send of the packet read; it blocks while the channel is full.
DispPush ==
    /\ Running
    /\ dPc = "push"
    /\ CASE dHeld.type = "PtResult" ->
              /\ Len(results) < ChanCap
              /\ results' = Append(results, dHeld.n)
              /\ dPc' = IF dDeferred THEN "deferred" ELSE "connect"
              /\ UNCHANGED <<headers, entries, entryRsp>>
         [] dHeld.type = "PtDataRsp" ->
              /\ Len(entryRsp) < ChanCap
              /\ entryRsp' = Append(entryRsp, RspOf(dHeld))
              /\ dPc' = "connect"
              /\ UNCHANGED <<results, headers, entries>>
         [] dHeld.type = "PtHeader" ->
              /\ Len(headers) < ChanCap
              /\ headers' = Append(headers, dHeld.n)
              /\ dPc' = "connect"
              /\ UNCHANGED <<results, entries, entryRsp>>
         [] OTHER ->
              /\ Len(entries) < ChanCap
              /\ entries' = PushEntry(entries, EntryOf(dHeld))
              /\ dPc' = "connect"
              /\ UNCHANGED <<results, headers, entryRsp>>
    /\ dHeld' = NoPacket
    /\ UNCHANGED <<clientVars, callerVars, dDeferred, consVars, sockVars, srvVars, seen, ls,
                   cmds, faults, tasks>>

\* After a result was pushed on the iteration that restored streaming:
\* getResult(CmdStart), and close, sleep and retry when it is not OK.
DispDeferred ==
    /\ Running
    /\ dPc = "deferred"
    /\ results # <<>>
    /\ results' = Tail(results)
    /\ dPc' = "connect"
    /\ IF ResultFailed(Head(results))
       THEN CloseConnection
       ELSE UNCHANGED <<conn, connected, out, wire>>
    /\ UNCHANGED <<started, streaming, fromStream, totalEntries, nextEntry, headers, entries,
                   entryRsp, callerVars, dDeferred, dHeld, consVars, srvVars, seen, ls, cmds,
                   faults, tasks>>

\* ------------------------------------------------------------ getStreaming
\* Mutant: the cursor is left on the entry delivered.
NextEntryAfterSame(e) == e.Number

\* c.nextEntry = e.Number + 1
NextEntryAfter(e) == e.Number + 1

\* e := <-c.entries
ConsPop ==
    /\ Running
    /\ sPc = "pop"
    /\ entries # <<>>
    /\ sCur' = Head(entries)
    /\ entries' = Tail(entries)
    /\ sPc' = "set"
    /\ UNCHANGED <<clientVars, results, headers, entryRsp, callerVars, dispVars, sockVars,
                   srvVars, seen, ls, cmds, faults, tasks>>

\* The cursor update, after which processEntry is called.
ConsSet ==
    /\ Running
    /\ sPc = "set"
    /\ nextEntry' = NextEntryAfter(sCur)
    /\ sPc' = "callback"
    /\ seen' = [Number |-> sCur.Number, sid |-> sCur.sid]
    /\ ls' = IF ls = "fresh" THEN "running" ELSE ls
    /\ UNCHANGED <<started, connected, streaming, fromStream, totalEntries, chanVars,
                   callerVars, dispVars, sCur, sockVars, srvVars, cmds, faults, tasks>>

\* processEntry returns: nil, and the loop goes on, or an error, and
\* getStreaming returns it.
ConsCallback ==
    /\ Running
    /\ sPc = "callback"
    /\ \E ok \in BOOLEAN : sPc' = IF ok THEN "pop" ELSE "done"
    /\ sCur' = NoEntry
    /\ UNCHANGED <<clientVars, chanVars, callerVars, dispVars, sockVars, srvVars, seen, ls,
                   cmds, faults, tasks>>

\* ------------------------------------------------ the server and the network
Packet(type, n, k, sid) == [type |-> type, n |-> n, k |-> k, sid |-> sid]

\* The packets the server answers a command with, for result code `code`:
\* a Result, and after an OK result the Header or the DataResponse entry.
Replies(m, code) ==
    IF code # CmdErrOK THEN {<<Packet("PtResult", code, "EtZero", 0)>>}
    ELSE CASE m.cmd = "CmdHeader" ->
                {<<Packet("PtResult", code, "EtZero", 0),
                   Packet("PtHeader", MaxEntry + 1, "EtZero", 0)>>}
           [] m.cmd = "CmdEntry" ->
                {<<Packet("PtResult", code, "EtZero", 0), Packet("PtDataRsp", m.arg, "EtData", 0)>>,
                 <<Packet("PtResult", code, "EtZero", 0), Packet("PtDataRsp", 0, "EtNotFound", 0)>>}
           [] m.cmd = "CmdBookmark" ->
                {<<Packet("PtResult", code, "EtZero", 0), Packet("PtDataRsp", 0, "EtBookmark", 0)>>,
                 <<Packet("PtResult", code, "EtZero", 0), Packet("PtDataRsp", 0, "EtNotFound", 0)>>}
           [] OTHER -> {<<Packet("PtResult", code, "EtZero", 0)>>}

\* The server reads one command and answers it. It may refuse any command.
ServerReply ==
    /\ Running
    /\ conn = "open"
    /\ out # <<>>
    /\ out' = Tail(out)
    /\ \E code \in {CmdErrOK, CmdErrFail} :
       \E rs \in Replies(Head(out), code) :
       \E from \in Entries :
         /\ Len(wire) + Len(rs) <= MaxWire
         /\ wire' = wire \o rs
         /\ Head(out).cmd = "CmdStart" => from = Head(out).arg
         /\ Head(out).cmd \notin {"CmdStart", "CmdStartBookmark"} => from = 0
         /\ IF code = CmdErrOK /\ Head(out).cmd \in {"CmdStart", "CmdStartBookmark"}
            THEN /\ srvStreaming' = TRUE /\ srvNext' = from
                 /\ srvSid' = srvSid + 1 /\ srvLast' = "start"
            ELSE IF code = CmdErrOK /\ Head(out).cmd = "CmdStop"
            THEN /\ srvStreaming' = FALSE /\ srvLast' = "stop"
                 /\ UNCHANGED <<srvNext, srvSid>>
            ELSE UNCHANGED srvVars
    /\ UNCHANGED <<clientVars, chanVars, callerVars, dispVars, consVars, conn, seen, ls, cmds,
                   faults, tasks>>

\* The server pushes the next entry of the stream it was asked to start.
ServerPush ==
    /\ Running
    /\ conn = "open"
    /\ srvStreaming
    /\ srvNext <= MaxEntry
    /\ Len(wire) < MaxWire
    /\ wire' = Append(wire, Packet("PtData", srvNext, "EtData", srvSid))
    /\ srvNext' = srvNext + 1
    /\ UNCHANGED <<clientVars, chanVars, callerVars, dispVars, consVars, conn, out,
                   srvStreaming, srvSid, srvLast, seen, ls, cmds, faults, tasks>>

\* The connection breaks: what the server had not read is lost, and of the
\* packets in flight a prefix still reaches the client before its read fails.
NetDrop ==
    /\ Running
    /\ conn = "open"
    /\ faults < MaxFaults
    /\ faults' = faults + 1
    /\ conn' = "broken"
    /\ out' = <<>>
    /\ \E k \in 0..Len(wire) : wire' = SubSeq(wire, 1, k)
    /\ UNCHANGED <<clientVars, chanVars, callerVars, dispVars, consVars, srvVars, seen, ls, cmds,
                   tasks>>

\* The last packet in flight arrives with a record that does not decode (a
\* short read, a length field below the fixed size), or with an unknown type.
NetCorrupt ==
    /\ Running
    /\ conn = "open"
    /\ faults < MaxFaults
    /\ wire # <<>>
    /\ wire[Len(wire)].type \notin {"bad", "PtUnknown"}
    /\ faults' = faults + 1
    /\ \E t \in {"bad", "PtUnknown"} : wire' = [wire EXCEPT ![Len(wire)].type = t]
    /\ UNCHANGED <<clientVars, chanVars, callerVars, dispVars, consVars, conn, out, srvVars,
                   seen, ls, cmds, tasks>>

\* ------------------------------------------------------------ specification
Next ==
    \/ ExecRejected \/ ExecSend \/ ExecResult \/ ExecHeader \/ ExecEntry
    \/ StartDial \/ StartSpawn
    \/ DispConnected \/ DispDial \/ DispRestore \/ DispResume \/ DispRead \/ DispPush \/ DispDeferred
    \/ ConsPop \/ ConsSet \/ ConsCallback
    \/ ServerReply \/ ServerPush \/ NetDrop \/ NetCorrupt

Spec == Init /\ [][Next]_vars

\* ------------------------------------------------------------------ claims
\* The step by which a foreground command leaves getResult.
CallerGotResult == cPc = "waitResult" /\ cPc' # "waitResult"

\* The step by which getStreaming calls processEntry.
CallbackInvoked == sPc = "set" /\ sPc' = "callback"

\* C1: a foreground Start(K) that pops an OK result returns nil with
\* streaming = true and fromStream = K; a foreground Stop that pops an OK result
\* returns nil with streaming = false.
C1_StartStopEffect ==
    [][(CallerGotResult /\ Head(results) = CmdErrOK) =>
         /\ cCmd = "CmdStart" =>
              ret'.err = "nil" /\ cPc' = "idle" /\ streaming' /\ fromStream' = cArg
         /\ cCmd = "CmdStop" =>
              ret'.err = "nil" /\ cPc' = "idle" /\ ~streaming']_vars

\* A Stop has returned nil after a Start(1) had set fromStream.
C1_Witness ==
    /\ cPc = "idle" /\ ret.cmd = "CmdStop" /\ ret.err = "nil"
    /\ ~streaming /\ fromStream = 1 /\ srvLast = "stop"

\* C3: when the callback is invoked for an entry with Number = N, nextEntry is
\* N+1, and it is N+1 in every state until the callback has returned, whether
\* it returns nil or an error.
C3_CursorBeforeCallback ==
    [][/\ sPc' = "callback" => nextEntry' = sCur'.Number + 1
       /\ sPc = "callback" => nextEntry' = sCur.Number + 1]_vars

\* The callback failed on entry 1 and left the cursor on 2.
C3_Witness == sPc = "done" /\ seen.Number = 1 /\ nextEntry = 2

\* C4: the callback is handed the entries in the order the dispatcher read
\* them: an entry of a later stream of the server never comes before one of an
\* earlier stream, and within one stream of the server (which lies within one
\* connection, and which the server pushes in increasing Number order) the
\* Numbers the callback sees increase strictly.
C4_DeliveredInReadOrder ==
    [][(CallbackInvoked /\ seen # NoSeen) =>
         \/ seen.sid < sCur.sid
         \/ seen.sid = sCur.sid /\ seen.Number < sCur.Number]_vars

\* The one Start(0) of the run delivered entry 0 and then entry 1, undisturbed.
C4_Witness ==
    /\ seen.Number = 1 /\ seen.sid = 1 /\ fromStream = 0
    /\ ret.cmd = "CmdStart" /\ cmds = 1 /\ faults = 0

\* A step in which the caller's thread runs execCommand up to a return, a
\* blocking read or a panic.
CommandStep == ret' # ret \/ cmds' # cmds \/ cPc' \in {"waitResult", "panic"} \ {cPc}

\* C7: while started = false every command, deferred or not, is answered
\* with the not-allowed error, and the call writes nothing to the socket, pops
\* nothing from a channel and leaves the flags and the cursor as they were.
C7_NotStartedRejected ==
    [][~started =>
         /\ \A cmd \in CommandValues : ExecCheck(cmd, started) = "ErrExecCommandNotAllowed"
         /\ CommandStep =>
              /\ ret'.err = "ErrExecCommandNotAllowed"
              /\ UNCHANGED <<out, chanVars, streaming, fromStream, totalEntries, nextEntry,
                             cPc>>]_vars

\* A valid command was rejected on the client that was never started.
C7_Witness ==
    /\ ~started /\ cPc = "new" /\ ret.cmd = "CmdStart"
    /\ ret.err = "ErrExecCommandNotAllowed"

\* The caller's thread runs execCommand with a command that is none of the six.
UnknownCommandStep ==
    \/ ret' # ret /\ ret'.cmd = "CmdUnknown"
    \/ cCmd' # cCmd /\ cCmd' = "CmdUnknown"

\* C8: on a started client a command that is none of the six known ones fails
\* with the invalid-command error, writes nothing and changes no flag, cursor
\* or channel.
C8_UnknownCommandRejected ==
    [][(started /\ UnknownCommandStep) =>
         /\ ret'.err = "ErrInvalidCommand"
         /\ UNCHANGED <<out, clientVars, chanVars, cPc>>]_vars

\* An unknown command was rejected while the client was streaming.
C8_Witness ==
    /\ started /\ streaming /\ ret.cmd = "CmdUnknown" /\ ret.err = "ErrInvalidCommand"

\* C9: a foreground command that pops a result that is not OK returns the
\* result-command error, leaves streaming, fromStream and totalEntries as they
\* were and pops nothing from headers or entryRsp; the deferred Start of
\* connectServer sets streaming and fromStream right after its writes, and
\* pops no result.
C9_FailedResultNoEffect ==
    [][/\ (CallerGotResult /\ Head(results) # CmdErrOK) =>
            /\ ret'.err = "ErrResultCommandError" /\ ret'.cmd = cCmd /\ cPc' = "idle"
            /\ UNCHANGED <<streaming, fromStream, totalEntries, headers, entryRsp>>
       /\ (dPc = "resume" /\ dPc' = "read") =>
            /\ streaming' /\ fromStream' = nextEntry
            /\ results' = results /\ dDeferred']_vars

\* A Stop was refused while streaming, and a reconnect has resumed from entry 2.
C9_Witness ==
    /\ ret.cmd = "CmdStop" /\ ret.err = "ErrResultCommandError" /\ streaming
    /\ dDeferred /\ dPc = "read" /\ fromStream = 2

\* C10: an Entry (Bookmark) command that pops an entry of the not-found kind
\* returns the entry-not-found (bookmark-not-found) error with the empty entry;
\* one that pops any other entry returns nil with that entry.
C10_NotFoundReturn ==
    [][(cPc = "waitEntry" /\ cPc' # "waitEntry") =>
         IF Head(entryRsp).Type = "EtNotFound"
         THEN /\ ret'.entry = EmptyEntry
              /\ cCmd = "CmdEntry" => ret'.err = "ErrEntryNotFound"
              /\ cCmd = "CmdBookmark" => ret'.err = "ErrBookmarkNotFound"
         ELSE ret'.err = "nil" /\ ret'.entry = Head(entryRsp)]_vars

\* A Bookmark command came back with the not-found error and no entry.
C10_Witness ==
    /\ ret.cmd = "CmdBookmark" /\ ret.err = "ErrBookmarkNotFound"
    /\ ret.entry = EmptyEntry /\ entryRsp = <<>>

\* C2: from the return of a successful Stop until the caller issues another
\* command, the callback is not invoked.
C2_NoDeliveryAfterStop ==
    [][(cPc = "idle" /\ ret.cmd = "CmdStop" /\ ret.err = "nil") => ~CallbackInvoked]_vars

\* C5: in a logical stream whose first entry has been delivered, nextEntry
\* never decreases and every further delivery increases it by exactly one.
C5_CursorStepsByOne ==
    [][(ls = "running" /\ ls' = "running") =>
         /\ nextEntry' >= nextEntry
         /\ CallbackInvoked => nextEntry' = nextEntry + 1]_vars

\* No command is on its way to the server and no result on its way back.
NoReplyPending ==
    /\ cPc = "idle" /\ out = <<>> /\ results = <<>>
    /\ dPc \notin {"restore", "resume", "deferred"}
    /\ dHeld.type # "PtResult"
    /\ \A i \in 1..Len(wire) : wire[i].type # "PtResult"

\* C6: streaming is true iff the last start or stop command the server
\* accepted is a start (stated for the states in which no command or result is
\* in flight: in the others the server is ahead of the client by the reply).
C6_StreamingIffStarted == NoReplyPending => (streaming <=> srvLast = "start")

\* A foreground command is written on the socket in this step.
ForegroundWrite ==
    /\ Len(out') = Len(out) + 1
    /\ ~out'[Len(out')].deferred

\* connectServer has dialled the new socket and is about to restore streaming.
RestorePending == (dPc = "restore" /\ streaming) \/ dPc = "resume"

\* C11: on a socket dialled while streaming is true, no foreground command is
\* written before the resume Start; the resume Start carries nextEntry and
\* connectServer then reports a pending deferred result; with streaming false
\* the reconnect writes nothing and reports no pending result.
C11_ResumeFirstOnNewSocket ==
    [][/\ RestorePending => ~ForegroundWrite
       /\ (dPc = "resume" /\ dPc' = "read") =>
            /\ dDeferred'
            /\ out' # out => out' = Append(out, Message("CmdStart", nextEntry, TRUE))
       /\ (dPc = "restore" /\ dPc' = "read") => (out' = out /\ ~dDeferred')]_vars

\* C12: while the dispatcher stands between the push of the first Result of
\* an iteration that sent a resume and its own getResult, that Result is the
\* only one in c.results and the caller does not pop it; the dispatcher's
\* getResult closes the connection and goes back to connectServer when the
\* code is not OK.
C12_DeferredResultToDispatcher ==
    [][dPc = "deferred" =>
         /\ Len(results) = 1
         /\ ~CallerGotResult
         /\ (dPc' # "deferred" /\ ResultFailed(Head(results))) =>
              (~connected' /\ dPc' = "connect")]_vars

\* The consumer is scheduled, and a callback that is running comes back.
FairSpec ==
    Spec /\ WF_vars(ConsPop) /\ WF_vars(ConsSet) /\ WF_vars(ConsCallback)

\* The dispatcher holds a Data entry it has read and not yet pushed.
HoldsData == dPc = "push" /\ dHeld.type = "PtData"

\* C13: a Data entry the dispatcher has read stays held, and nothing more is
\* read, until it is appended to c.entries, which happens only when the
\* channel has room; c.entries otherwise changes only by the consumer's pop of
\* its head; and while the consumer is running a non-empty c.entries is
\* eventually drained.
C13_NoEntryDropped ==
    /\ [][/\ HoldsData =>
               \/ dHeld' = dHeld /\ dPc' = dPc
               \/ Len(entries) < ChanCap /\ entries' = Append(entries, EntryOf(dHeld))
               \/ cPc' = "panic"
          /\ entries' # entries =>
               \/ HoldsData /\ entries' = Append(entries, EntryOf(dHeld))
               \/ sPc = "pop" /\ entries' = Tail(entries) /\ sCur' = Head(entries)]_vars
    /\ (entries # <<>> /\ sPc # "done") ~> (entries = <<>> \/ sPc = "done" \/ ~Running)

\* The dispatcher is blocked on a full c.entries with one more entry in hand.
C13_Witness == HoldsData /\ Len(entries) = ChanCap /\ sPc # "done"

\* C14: once the consumer has exited on a callback error, the dispatcher is
\* never blocked on the send to c.entries (nothing receives from the channel
\* any more, so a dispatcher blocked there reads and dispatches nothing again,
\* the results of foreground commands included).
C14_DispatcherSurvivesCallbackFailure ==
    sPc = "done" => ~(HoldsData /\ Len(entries) = ChanCap)

\* ------------------------------------------------- Start on a started client
\* Start called again with the connection up: connectServer skips its loop,
\* and Start launches another readEntries and another getStreaming and sets
\* the started flag. (With the connection down the call would dial on the
\* caller's thread; that case is left out.)
StartAgain ==
    /\ Running
    /\ cPc = "idle"
    /\ started /\ connected
    /\ tasks < MaxTasks
    /\ tasks' = tasks + 1
    /\ started' = TRUE
    /\ UNCHANGED <<connected, streaming, fromStream, totalEntries, nextEntry, chanVars,
                   callerVars, dispVars, consVars, sockVars, srvVars, seen, ls, cmds, faults>>

\* The client with Start callable more than once. tasks counts the pairs of
\* goroutines launched; the steps followed are those of the first pair.
NextRestart ==
    \/ ExecRejected \/ ExecSend \/ ExecResult \/ ExecHeader \/ ExecEntry
    \/ StartDial \/ StartSpawn \/ StartAgain
    \/ DispConnected \/ DispDial \/ DispRestore \/ DispResume \/ DispRead \/ DispPush \/ DispDeferred
    \/ ConsPop \/ ConsSet \/ ConsCallback
    \/ ServerReply \/ ServerPush \/ NetDrop \/ NetCorrupt

RestartSpec == Init /\ [][NextRestart]_vars

\* C15: however often Start is called, one readEntries and one getStreaming
\* have been launched on a started client, and started is true.
C15_StartIdempotent == started => tasks = 1

\* C16: a known command the caller issues while the connection is down goes
\* on to wait for its result: the step neither returns the write failure to
\* the caller nor ends the process.
C16_OutageBlocksCaller ==
    [][(/\ started /\ ~connected /\ cPc = "idle"
        /\ cmds' = cmds + 1
        /\ ret'.err # "ErrInvalidCommand") => cPc' = "waitResult"]_vars

\* C17: when connectServer is about to read nextEntry for the resume Start,
\* c.entries is empty and the consumer is blocked on its receive (it is not
\* between the receive and the assignment of nextEntry).
C17_ResumeReadsSettledCursor ==
    dPc = "resume" => (entries = <<>> /\ sPc = "pop")

\* The dispatcher's next read of the socket fails: the record at the head does
\* not decode, or nothing is left to read on a connection that is gone.
ReadFails ==
    /\ dPc = "read"
    /\ \/ wire # <<>> /\ Head(wire).type = "bad"
       \/ wire = <<>> /\ conn # "open"

\* C18: a read of the type byte or of a record that fails clears connected,
\* pushes nothing on any channel and takes the dispatcher back to
\* connectServer; the dispatcher is at a socket read only with connected true;
\* and once launched the dispatcher loop is never left.
C18_ReadFailureReconnects ==
    [][/\ (ReadFails /\ dPc' # dPc) =>
            /\ ~connected' /\ dPc' = "connect"
            /\ UNCHANGED chanVars /\ dHeld' = dHeld
       /\ dPc' = "read" => connected'
       /\ dPc # "off" =>
            dPc' \in {"connect", "restore", "resume", "read", "push", "deferred"}]_vars

\* A read has failed during a stream: the dispatcher is back in connectServer
\* with the socket closed, the flag cleared and nothing in its hand.
C18_Witness ==
    /\ dPc = "connect" /\ ~connected /\ conn = "closed"
    /\ faults = 1 /\ srvLast = "start" /\ dHeld = NoPacket

\* C19: in a logical stream none of whose entries has reached the callback
\* yet, the resume Start asks for an index that is not below fromStream, the
\* fromEntry recorded by the foreground Start.
C19_ResumeNotBelowStart ==
    [][(dPc = "resume" /\ dPc' = "read" /\ ls = "fresh" /\ ret.cmd = "CmdStart") =>
         ResumeFrom >= fromStream]_vars

\* C20: the dispatcher is never at its getResult for the resume with
\* c.results empty: the Result it has just pushed is still there for it. (The
\* dispatcher is the only sender on c.results, so at that receive an empty
\* channel blocks it for ever and no later result reaches any caller.)
C20_DeferredPopCompletes == dPc = "deferred" => results # <<>>

====
